---- MODULE Spec2Model ----
(***************************************************************************)
(* Model of the bi-bot trading services.                                   *)
(*                                                                         *)
(*   src/user_input_files/binance_bot_backend.py  ("ccxt" service):        *)
(*       indicators, the five strategy detectors, analyze_market,          *)
(*       calculate_position_size, execute_trade, TradingBot.run/stop and   *)
(*       the /start-bot and /stop-bot handlers.                            *)
(*   src/main-no-ccxt.py                          ("noccxt" service):      *)
(*       /api/start, /api/stop, TradingBot.start/stop/trading_loop.        *)
(*                                                                         *)
(* Both services run on one asyncio event loop: a handler or task runs     *)
(* without interruption from one suspension point (an await that reaches   *)
(* the network or a sleep) to the next, so every action below is one such  *)
(* uninterrupted segment.                                                  *)
(***************************************************************************)
EXTENDS Integers, Sequences, FiniteSets, TLC

VARIABLES
    svc,            \* which service module is deployed: "ccxt" or "noccxt"
    creds,          \* noccxt: BINANCE_API_KEY / BINANCE_SECRET_KEY are configured
    bot_instance,   \* ccxt: global bot_instance (0 = None); noccxt: trading_bot (always 1)
    bots,           \* the TradingBot objects ever constructed
    tasks,          \* the asyncio tasks created by the start handlers
    calls,          \* noccxt: /api/start handlers suspended in fetch_balance
    resp,           \* the last HTTP response returned by a start/stop handler
    accepted,       \* history: start calls accepted since the last stop call
    iter,           \* history: what the last ccxt poll iteration did
    candles,        \* detector checks: the candle frame handed to the strategies (self.df)
    ret,            \* detector checks: the function called last and what it returned
    ind,            \* indicator checks: the series and period given, the indicator called, its result
    order,          \* sizing checks: the arguments of the sizing call
    sized           \* sizing checks: the function called last and what it returned

botVars    == <<svc, creds, bot_instance, bots, tasks, calls, resp, accepted, iter>>
detectVars == <<candles, ret, ind>>
sizeVars   == <<order, sized>>
vars       == <<botVars, detectVars, sizeVars>>

(***************************************************************************)
(* Numbers.  The code computes in IEEE doubles; the model computes in      *)
(* fixed point: a price or volume of the candle frame is an integer, and   *)
(* every derived value (indicator, signal level) is an integer count of    *)
(* 1/SCALE units, with division rounding down.  NaN is pandas' not-a-number*)
(* (a rolling window that is not full, 0/0); a comparison with NaN is      *)
(* false and arithmetic on NaN gives NaN, as in numpy.                     *)
(***************************************************************************)
SCALE == 10^3

NaN == -(2^30)

\* a greater-than that does not know NaN
NaiveGt(a, b) == a > b

Gt(a, b) == a # NaN /\ b # NaN /\ a > b
Lt(a, b) == a # NaN /\ b # NaN /\ a < b
Ge(a, b) == a # NaN /\ b # NaN /\ a >= b
Le(a, b) == a # NaN /\ b # NaN /\ a <= b
Add(a, b) == IF a = NaN \/ b = NaN THEN NaN ELSE a + b
Sub(a, b) == IF a = NaN \/ b = NaN THEN NaN ELSE a - b
\* a * n / d for a scaled value a and literal factor n/d (1.2 is 12/10)
Times(a, n, d) == IF a = NaN THEN NaN ELSE (a * n) \div d

Abs(x) == IF x < 0 THEN -x ELSE x
Max2(a, b) == IF a >= b THEN a ELSE b
Min2(a, b) == IF a <= b THEN a ELSE b

\* sum of x[a..b]
RECURSIVE Sum(_, _, _)
Sum(x, a, b) == IF a > b THEN 0 ELSE x[b] + Sum(x, a, b - 1)

\* a column of the frame, scaled: df['close'] etc.
Col(df, f) == [i \in 1..Len(df) |-> df[i][f] * SCALE]

\* Series.rolling(window).mean(): NaN until the window is full
Rolling(x, window) ==
    [i \in 1..Len(x) |-> IF i < window THEN NaN
                          ELSE Sum(x, i - window + 1, i) \div window]

(***************************************************************************)
(* AdvancedIndicators                                                      *)
(***************************************************************************)
\* data.ewm(span=period, adjust=False).mean():
\* y[1] = x[1], y[t] = (1-a)*y[t-1] + a*x[t] with a = 2/(period+1)
\* a recurrence whose two weights do not add up to one
unnormalised_ema(data, period) ==
    LET RECURSIVE go(_, _)
        go(i, acc) ==
            IF i > Len(data) THEN acc
            ELSE go(i + 1, Append(acc,
                    IF i = 1 THEN data[1]
                    ELSE (period * acc[i - 1] + 2 * data[i]) \div (period + 1)))
    IN go(1, <<>>)

calculate_ema(data, period) ==
    LET RECURSIVE go(_, _)
        go(i, acc) ==
            IF i > Len(data) THEN acc
            ELSE go(i + 1, Append(acc,
                    IF i = 1 THEN data[1]
                    ELSE ((period - 1) * acc[i - 1] + 2 * data[i]) \div (period + 1)))
    IN go(1, <<>>)

\* delta = data.diff(); delta.where(delta > 0, 0) puts 0 at the first row too
\* (NaN > 0 is false), so the rolling means are defined from row `period` on.
\* rs = gain / loss: x/0 is inf for x > 0 (rsi = 100 - 100/inf = 100) and 0/0 is NaN.
calculate_rsi(data, period) ==
    LET delta == [i \in 1..Len(data) |-> IF i = 1 THEN NaN ELSE data[i] - data[i - 1]]
        up    == [i \in 1..Len(data) |-> IF Gt(delta[i], 0) THEN delta[i] ELSE 0]
        down  == [i \in 1..Len(data) |-> IF Lt(delta[i], 0) THEN -delta[i] ELSE 0]
        gain  == Rolling(up, period)
        loss  == Rolling(down, period)
    IN [i \in 1..Len(data) |->
          IF gain[i] = NaN \/ loss[i] = NaN THEN NaN
          ELSE IF loss[i] = 0 THEN (IF gain[i] = 0 THEN NaN ELSE 100 * SCALE)
          ELSE LET rs == (gain[i] * SCALE) \div loss[i]
               IN 100 * SCALE - (100 * SCALE * SCALE) \div (SCALE + rs)]

\* typical_price = (high + low + close) / 3;
\* (typical_price * volume).cumsum() / volume.cumsum()
calculate_vwap(df) ==
    LET tp  == [i \in 1..Len(df) |-> ((df[i].high + df[i].low + df[i].close) * SCALE) \div 3]
        pv  == [i \in 1..Len(df) |-> tp[i] * df[i].volume]
        vol == [i \in 1..Len(df) |-> df[i].volume]
    IN [i \in 1..Len(df) |->
          IF Sum(vol, 1, i) = 0 THEN NaN ELSE Sum(pv, 1, i) \div Sum(vol, 1, i)]

\* true range = max(high-low, |high-prev close|, |low-prev close|); the first row
\* has no previous close and max(axis=1) skips the NaNs
calculate_atr(df, period) ==
    LET tr == [i \in 1..Len(df) |->
                 LET hl == df[i].high - df[i].low
                 IN (IF i = 1 THEN hl
                     ELSE Max2(hl, Max2(Abs(df[i].high - df[i - 1].close),
                                        Abs(df[i].low - df[i - 1].close)))) * SCALE]
    IN Rolling(tr, period)

\* the histogram of calculate_macd(data, 12, 26, 9)
calculate_macd(data) ==
    LET ema_fast == calculate_ema(data, 12)
        ema_slow == calculate_ema(data, 26)
        macd     == [i \in 1..Len(data) |-> ema_fast[i] - ema_slow[i]]
        signal   == calculate_ema(macd, 9)
    IN [i \in 1..Len(data) |-> macd[i] - signal[i]]

\* (np.sign(close.diff()) * volume).fillna(0).cumsum()
calculate_obv(df) ==
    LET sv == [i \in 1..Len(df) |->
                 IF i = 1 THEN 0
                 ELSE IF df[i].close > df[i - 1].close THEN df[i].volume * SCALE
                 ELSE IF df[i].close < df[i - 1].close THEN -(df[i].volume * SCALE)
                 ELSE 0]
    IN [i \in 1..Len(df) |-> Sum(sv, 1, i)]

\* close - open
calculate_delta(df) == [i \in 1..Len(df) |-> (df[i].close - df[i].open) * SCALE]

(***************************************************************************)
(* AdvancedStrategies.  A detector returns a signal dict, None, or raises  *)
(* (df.iloc[-1] / df.iloc[-2] on a frame without that row is IndexError).  *)
(* The result is a record whose `kind` says which.                         *)
(***************************************************************************)
\* a signal dict that carries one confidence whatever the detector gave
LevelledSignal(type, entry, stop_loss, take_profit, confidence, strategy) ==
    [kind |-> "signal", type |-> type, entry |-> entry, stop_loss |-> stop_loss,
     take_profit |-> take_profit, confidence |-> 80, strategy |-> strategy]

Signal(type, entry, stop_loss, take_profit, confidence, strategy) ==
    [kind |-> "signal", type |-> type, entry |-> entry, stop_loss |-> stop_loss,
     take_profit |-> take_profit, confidence |-> confidence, strategy |-> strategy]

NoResult(kind) ==
    [kind |-> kind, type |-> "", entry |-> 0, stop_loss |-> 0,
     take_profit |-> 0, confidence |-> 0, strategy |-> ""]

None == NoResult("None")
IndexError == NoResult("IndexError")

\* last['volume'] > last[avg] * factor/10
VolumeAbove(df, factor) ==
    LET n   == Len(df)
        avg == Rolling(Col(df, "volume"), 20)
    IN Gt(df[n].volume * SCALE, Times(avg[n], factor, 10))

ema_crossover_rsi_strategy(df) ==
    IF Len(df) < 2 THEN IndexError
    ELSE
    LET n      == Len(df)
        close  == Col(df, "close")
        ema_9  == calculate_ema(close, 9)
        ema_21 == calculate_ema(close, 21)
        ema_50 == calculate_ema(close, 50)
        rsi    == calculate_rsi(close, 14)
        atr    == calculate_atr(df, 14)[n]
    IN IF /\ ema_9[n - 1] <= ema_21[n - 1]
          /\ ema_9[n] > ema_21[n]
          /\ Gt(rsi[n], 50 * SCALE) /\ Lt(rsi[n], 70 * SCALE)
          /\ close[n] > ema_50[n]
          /\ VolumeAbove(df, 12)
       THEN Signal("LONG", close[n], Sub(close[n], Times(atr, 2, 1)),
                   Add(close[n], Times(atr, 4, 1)), 75, "EMA Crossover with RSI")
       ELSE IF /\ ema_9[n - 1] >= ema_21[n - 1]
               /\ ema_9[n] < ema_21[n]
               /\ Lt(rsi[n], 50 * SCALE) /\ Gt(rsi[n], 30 * SCALE)
               /\ close[n] < ema_50[n]
               /\ VolumeAbove(df, 12)
       THEN Signal("SHORT", close[n], Add(close[n], Times(atr, 2, 1)),
                   Sub(close[n], Times(atr, 4, 1)), 75, "EMA Crossover with RSI")
       ELSE None

volume_profile_order_flow_strategy(df) ==
    IF Len(df) < 1 THEN IndexError
    ELSE
    LET n         == Len(df)
        close     == Col(df, "close")
        vwap      == calculate_vwap(df)[n]
        delta     == calculate_delta(df)
        delta_ema == calculate_ema(delta, 9)
        atr       == calculate_atr(df, 14)[n]
    IN IF /\ Gt(close[n], vwap)
          /\ delta[n] > 0
          /\ delta[n] * 10 > delta_ema[n] * 15
          /\ VolumeAbove(df, 15)
       THEN Signal("LONG", close[n], Sub(vwap, atr),
                   Add(close[n], Times(atr, 3, 1)), 80, "Volume Profile + Order Flow")
       ELSE IF /\ Lt(close[n], vwap)
               /\ delta[n] < 0
               /\ delta[n] * 10 < delta_ema[n] * 15
               /\ VolumeAbove(df, 15)
       THEN Signal("SHORT", close[n], Add(vwap, atr),
                   Sub(close[n], Times(atr, 3, 1)), 80, "Volume Profile + Order Flow")
       ELSE None

\* the rows i with df[f][i] == df[f].rolling(5, center=True).max() (or .min()):
\* the centred window is NaN on the first two and the last two rows
SwingRows(df, f, isMax) ==
    LET n == Len(df)
        ext(i) == IF isMax
                  THEN Max2(Max2(Max2(df[i - 2][f], df[i - 1][f]), df[i][f]),
                            Max2(df[i + 1][f], df[i + 2][f]))
                  ELSE Min2(Min2(Min2(df[i - 2][f], df[i - 1][f]), df[i][f]),
                            Min2(df[i + 1][f], df[i + 2][f]))
        RECURSIVE rows(_)
        rows(i) == IF i > n - 2 THEN <<>>
                   ELSE (IF df[i][f] = ext(i) THEN <<i>> ELSE <<>>) \o rows(i + 1)
    IN rows(3)

\* .tail(k)
TailRows(rows, k) ==
    IF Len(rows) <= k THEN rows ELSE SubSeq(rows, Len(rows) - k + 1, Len(rows))

market_structure_break_strategy(df) ==
    IF Len(df) < 1 THEN IndexError
    ELSE
    LET n            == Len(df)
        close        == Col(df, "close")
        rsi          == calculate_rsi(close, 14)[n]
        macd_hist    == calculate_macd(close)[n]
        recent_highs == TailRows(SwingRows(df, "high", TRUE), 3)
        recent_lows  == TailRows(SwingRows(df, "low", FALSE), 3)
        atr          == calculate_atr(df, 14)[n]
        nh           == Len(recent_highs)
        nl           == Len(recent_lows)
    IN IF /\ nh >= 2
          /\ close[n] > df[recent_highs[nh - 1]].high * SCALE
          /\ Gt(rsi, 55 * SCALE)
          /\ macd_hist > 0
       THEN Signal("LONG", close[n],
                   IF nl > 0 THEN df[recent_lows[nl]].low * SCALE
                   ELSE Sub(close[n], Times(atr, 2, 1)),
                   Add(close[n], Times(atr, 3, 1)), 72, "Market Structure Break")
       ELSE IF /\ nl >= 2
               /\ close[n] < df[recent_lows[nl - 1]].low * SCALE
               /\ Lt(rsi, 45 * SCALE)
               /\ macd_hist < 0
       THEN Signal("SHORT", close[n],
                   IF nh > 0 THEN df[recent_highs[nh]].high * SCALE
                   ELSE Add(close[n], Times(atr, 2, 1)),
                   Sub(close[n], Times(atr, 3, 1)), 72, "Market Structure Break")
       ELSE None

liquidity_sweep_fvg_strategy(df) ==
    IF Len(df) < 1 THEN IndexError
    ELSE
    LET n        == Len(df)
        \* low.shift(-1) > high.shift(1): NaN, so False, where a neighbour is missing
        fvg_up   == [i \in 1..n |-> i > 1 /\ i < n /\ df[i + 1].low > df[i - 1].high]
        fvg_down == [i \in 1..n |-> i > 1 /\ i < n /\ df[i + 1].high < df[i - 1].low]
        atr      == calculate_atr(df, 14)[n]
        first    == IF n >= 3 THEN n - 2 ELSE 1          \* last_3.iloc[0]
        lows     == [i \in 1..n |-> df[i].low]
        highs    == [i \in 1..n |-> df[i].high]
        RECURSIVE lo(_)
        lo(i)    == IF i = n THEN lows[n] ELSE Min2(lows[i], lo(i + 1))
        RECURSIVE hi(_)
        hi(i)    == IF i = n THEN highs[n] ELSE Max2(highs[i], hi(i + 1))
        min_low  == lo(first) * SCALE
        max_high == hi(first) * SCALE
        close    == df[n].close * SCALE
    IN IF /\ min_low < df[first].low * SCALE
          /\ close > df[first + 1].high * SCALE
          /\ fvg_up[n]
          /\ VolumeAbove(df, 15)
       THEN Signal("LONG", close, Sub(min_low, atr),
                   close + (close - min_low) * 2, 82, "Liquidity Sweep + FVG")
       ELSE IF /\ max_high > df[first].high * SCALE
               /\ close < df[first + 1].low * SCALE
               /\ fvg_down[n]
               /\ VolumeAbove(df, 15)
       THEN Signal("SHORT", close, Add(max_high, atr),
                   close - (max_high - close) * 2, 82, "Liquidity Sweep + FVG")
       ELSE None

\* last_20.nsmallest(2, f) / nlargest(2, f): the rows of the two extreme values,
\* the most extreme first; equal values keep their order in the frame
Extreme2(df, from, f, isMax) ==
    LET n == Len(df)
        better(a, b) == IF isMax THEN df[a][f] > df[b][f] ELSE df[a][f] < df[b][f]
        RECURSIVE best(_, _)
        best(i, skip) ==
            IF i > n THEN 0
            ELSE LET r == best(i + 1, skip)
                 IN IF i = skip THEN r
                    ELSE IF r = 0 THEN i
                    ELSE IF better(r, i) THEN r ELSE i
        b1 == best(from, 0)
        b2 == best(from, b1)
    IN IF b1 = 0 THEN <<>> ELSE IF b2 = 0 THEN <<b1>> ELSE <<b1, b2>>

delta_divergence_strategy(df) ==
    LET n           == Len(df)
        from        == IF n > 20 THEN n - 19 ELSE 1        \* df.tail(20)
        delta       == calculate_delta(df)
        obv         == calculate_obv(df)
        obv_ma      == Rolling(obv, 20)
        rsi         == calculate_rsi(Col(df, "close"), 14)
        atr         == calculate_atr(df, 14)[n]
        close       == df[n].close * SCALE
        price_lows  == Extreme2(df, from, "low", FALSE)
        price_highs == Extreme2(df, from, "high", TRUE)
    IN IF /\ Len(price_lows) = 2
          /\ df[price_lows[2]].low < df[price_lows[1]].low
          /\ delta[price_lows[2]] > delta[price_lows[1]]
          /\ Gt(obv[n], obv_ma[n])
          /\ Lt(rsi[n], 40 * SCALE)
       THEN Signal("LONG", close, Sub(df[price_lows[2]].low * SCALE, atr),
                   Add(close, Times(atr, 3, 1)), 78, "Delta Divergence")
       ELSE IF /\ Len(price_highs) = 2
               /\ df[price_highs[2]].high > df[price_highs[1]].high
               /\ delta[price_highs[2]] < delta[price_highs[1]]
               /\ Lt(obv[n], obv_ma[n])
               /\ Gt(rsi[n], 60 * SCALE)
       THEN Signal("SHORT", close, Add(df[price_highs[2]].high * SCALE, atr),
                   Sub(close, Times(atr, 3, 1)), 78, "Delta Divergence")
       ELSE None

(***************************************************************************)
(* TradingBot: analyze_market, calculate_position_size, execute_trade      *)
(***************************************************************************)
\* list.sort(key=confidence, reverse=True): stable, so equal keys keep their order
RECURSIVE SortByConfidence(_)
SortByConfidence(signals) ==
    IF signals = <<>> THEN <<>>
    ELSE LET n      == Len(signals)
             x      == signals[n]
             sorted == SortByConfidence(SubSeq(signals, 1, n - 1))
             ahead  == SelectSeq(sorted, LAMBDA y : y.confidence >= x.confidence)
             behind == SelectSeq(sorted, LAMBDA y : y.confidence < x.confidence)
         IN ahead \o <<x>> \o behind

\* strategy_methods
StrategyMethods ==
    << "ema_crossover_rsi_strategy", "volume_profile_order_flow_strategy",
       "market_structure_break_strategy", "liquidity_sweep_fvg_strategy",
       "delta_divergence_strategy" >>

\* method()
CallMethod(fn, df) ==
    CASE fn = "ema_crossover_rsi_strategy" -> ema_crossover_rsi_strategy(df)
      [] fn = "volume_profile_order_flow_strategy" -> volume_profile_order_flow_strategy(df)
      [] fn = "market_structure_break_strategy" -> market_structure_break_strategy(df)
      [] fn = "liquidity_sweep_fvg_strategy" -> liquidity_sweep_fvg_strategy(df)
      [] fn = "delta_divergence_strategy" -> delta_divergence_strategy(df)

\* a method that assigns its indicator columns to self.df itself: every row gets
\* a column more
FrameAssigned(df, fn) ==
    [i \in 1..Len(df) |->
        [c \in DOMAIN df[i] \cup {fn} |-> IF c \in DOMAIN df[i] THEN df[i][c] ELSE 0]]

\* self.df after a strategy method ran: the method starts with
\* `df = self.df.copy()` and assigns its columns to the copy
FrameAfter(df, fn) == df

\* self.df after the methods have run one after the other
RECURSIVE FrameAfterMethods(_, _)
FrameAfterMethods(df, methods) ==
    IF methods = <<>> THEN df
    ELSE FrameAfterMethods(FrameAfter(df, Head(methods)), Tail(methods))

\* the results of the methods run in this order on one AdvancedStrategies object
RECURSIVE RunInOrder(_, _)
RunInOrder(frame, methods) ==
    IF methods = <<>> THEN <<>>
    ELSE <<CallMethod(Head(methods), frame)>>
         \o RunInOrder(FrameAfter(frame, Head(methods)), Tail(methods))

\* the five strategy methods in the order of strategy_methods
RunStrategies(frame) == RunInOrder(frame, StrategyMethods)

\* a strategy that raises ends analyze_market with that exception
analyze_market(frame) ==
    LET results == RunStrategies(frame)
        raised  == \E i \in 1..5 : results[i].kind = "IndexError"
        found   == SelectSeq(results, LAMBDA r : r.kind = "signal")
    IN [raised  |-> raised,
        signals |-> IF raised THEN <<>> ELSE SortByConfidence(found)]

\* round(n / d, 3) of an exact quotient n/d of thousandths: to nearest, ties to even
RoundHalfEven(n, d) ==
    LET q == n \div d
        r == n % d
    IN IF 2 * r > d THEN q + 1
       ELSE IF 2 * r < d THEN q
       ELSE IF q % 2 = 0 THEN q ELSE q + 1

SizeResult(kind, size) == [kind |-> kind, size |-> size]

\* a sizing that leaves the leverage out
unlevered_position_size(balance, risk_percent, leverage, entry, stop_loss, numeric) ==
    LET risk_amount   == (balance * risk_percent * SCALE) \div 100
        stop_distance == Abs(entry - stop_loss)
    IN IF stop_distance = 0 THEN SizeResult("inf", 0)
       ELSE SizeResult("size", RoundHalfEven(risk_amount * SCALE, stop_distance))

\* risk_amount = balance * (risk_percent / 100); stop_distance = abs(entry - stop_loss);
\* round((risk_amount / stop_distance) * leverage, 3), in thousandths.
\* x / 0: numpy scalars (the rows of a frame) give inf, Python floats raise.
calculate_position_size(balance, risk_percent, leverage, entry, stop_loss, numeric) ==
    LET risk_amount   == (balance * risk_percent * SCALE) \div 100
        stop_distance == IF entry = NaN \/ stop_loss = NaN THEN NaN
                         ELSE Abs(entry - stop_loss)
    IN IF stop_distance = NaN THEN SizeResult("nan", 0)
       ELSE IF stop_distance = 0
            THEN (IF numeric = "float64" THEN SizeResult("inf", 0)
                  ELSE SizeResult("ZeroDivisionError", 0))
       ELSE SizeResult("size", RoundHalfEven(risk_amount * leverage * SCALE, stop_distance))

\* try: size = ...; log; return True / except: return False.  No order is sent.
execute_trade(balance, risk_percent, leverage, signal, numeric) ==
    LET size == calculate_position_size(balance, risk_percent, leverage,
                                        signal.entry, signal.stop_loss, numeric)
    IN [ok |-> size.kind # "ZeroDivisionError", size |-> size]

(***************************************************************************)
(* Candle frames.  A frame is a sequence of candles (the timestamp column  *)
(* is not read by any strategy and is left out).  The frames checked are   *)
(* a flat run of PadLen candles followed by seven candles that each open   *)
(* at the previous close: five moves from Prefixes, two from LastDiffs,    *)
(* the last candle with a volume from LastVolumes; a frame is then cut to  *)
(* its last n candles, n from Lens (0 is the empty frame).                 *)
(***************************************************************************)
PadLen == 44

Candle(o, c, v) ==
    [open |-> o, high |-> Max2(o, c), low |-> Min2(o, c), close |-> c, volume |-> v]

Prefixes ==
    { <<-6, -6, -6, -3, 12>>, <<6, 6, 6, 3, -12>>,
      <<25, 1, 1, -7, 8>>, <<-25, -1, -1, 7, -8>>,
      <<1, 1, 1, 1, 1>>, <<-1, -1, -1, -1, -1>>,
      <<0, 0, 0, 0, 0>> }

LastDiffs == {-19, -12, -9, 0, 9, 12, 19}

LastVolumes == {2, 8}

Lens == {0, 1, 2, 3, 14, 19, 20, 51}

FrameOf(pre, d6, d7, v, n) ==
    LET pad   == [i \in 1..PadLen |-> Candle(100, 100, 2)]
        moves == pre \o <<d6, d7>>
        RECURSIVE tail(_, _)
        tail(i, prev) ==
            IF i > Len(moves) THEN <<>>
            ELSE <<Candle(prev, prev + moves[i], IF i = Len(moves) THEN v ELSE 2)>>
                 \o tail(i + 1, prev + moves[i])
        full  == pad \o tail(1, 100)
    IN IF n >= Len(full) THEN full ELSE SubSeq(full, Len(full) - n + 1, Len(full))

\* three last candles with wicks: a sweep under (over) the first candle's low
\* (high), then a candle that gaps away from the first candle's range
SweepTails ==
    { << [open |-> 100, high |-> 101, low |-> 99, close |-> 100, volume |-> 2],
         [open |-> 100, high |-> 103, low |-> 95, close |-> 102, volume |-> 2],
         [open |-> 104, high |-> 110, low |-> 104, close |-> 109, volume |-> 8] >>,
      << [open |-> 100, high |-> 101, low |-> 99, close |-> 100, volume |-> 2],
         [open |-> 100, high |-> 105, low |-> 97, close |-> 98, volume |-> 2],
         [open |-> 96, high |-> 96, low |-> 90, close |-> 91, volume |-> 8] >> }

SweepFrames ==
    { [i \in 1..PadLen |-> Candle(100, 100, 2)] \o t : t \in SweepTails }

Frames ==
    { FrameOf(pre, d6, d7, v, n) :
        pre \in Prefixes, d6 \in LastDiffs, d7 \in LastDiffs, v \in LastVolumes, n \in Lens }
    \cup SweepFrames

(***************************************************************************)
(* The strategies and the aggregator as functions of a frame: SpecDetect   *)
(* draws a frame and calls one of them on it.                              *)
(***************************************************************************)
Returned(fn, result, raised, signals) ==
    [fn |-> fn, result |-> result, raised |-> raised, signals |-> signals]

NotCalled == Returned("", None, FALSE, <<>>)

NoOrder == [entry |-> 0, stop_loss |-> 0, risk_percent |-> 0, leverage |-> 0, numeric |-> ""]

\* an indicator call: the series and the period passed, and the series returned
IndicatorCall(fn, data, period, out) ==
    [fn |-> fn, data |-> data, period |-> period, out |-> out]

NoSeries == IndicatorCall("", <<>>, 0, <<>>)

NotSized == [fn |-> "", ok |-> FALSE, size |-> SizeResult("", 0)]

CallStrategy(fn, result) ==
    /\ ret = NotCalled
    /\ ret' = Returned(fn, result, result.kind = "IndexError", <<>>)
    /\ candles' = FrameAfter(candles, fn)
    /\ UNCHANGED <<ind, botVars, sizeVars>>

DetectEma == CallStrategy("ema_crossover_rsi_strategy", ema_crossover_rsi_strategy(candles))

DetectVolumeProfile ==
    CallStrategy("volume_profile_order_flow_strategy", volume_profile_order_flow_strategy(candles))

DetectStructureBreak ==
    CallStrategy("market_structure_break_strategy", market_structure_break_strategy(candles))

DetectLiquiditySweep ==
    CallStrategy("liquidity_sweep_fvg_strategy", liquidity_sweep_fvg_strategy(candles))

DetectDeltaDivergence ==
    CallStrategy("delta_divergence_strategy", delta_divergence_strategy(candles))

AnalyzeMarket ==
    /\ ret = NotCalled
    /\ LET out == analyze_market(candles)
       IN ret' = Returned("analyze_market", None, out.raised, out.signals)
    /\ candles' = FrameAfterMethods(candles, StrategyMethods)
    /\ UNCHANGED <<ind, botVars, sizeVars>>

(***************************************************************************)
(* The services.  bots are the TradingBot objects, tasks the asyncio tasks *)
(* made by asyncio.create_task in the start handlers.  A task's pc is the  *)
(* await it is suspended at:                                               *)
(*   "created"  scheduled, no statement run yet                            *)
(*   "sleep"    in the loop, at await asyncio.sleep                        *)
(*   "init"     noccxt: in start(), at the first update_account_data       *)
(*   "update"   noccxt: in trading_loop, at update_account_data            *)
(*   "done"     the coroutine returned                                     *)
(* told is history: a stop call was made on the task's bot while the task  *)
(* was alive.  resp and iter describe the step just taken (the response    *)
(* a handler returned, the loop pass a task made) and are blank after any  *)
(* other step.                                                             *)
(***************************************************************************)
MaxTasks == 2
MaxCalls == 2

Balance == 10000
Leverage == 10
RiskPercent == 1

MaxPositionsChoices == {1, 2}

\* TradingBot.__init__ (ccxt: config given; noccxt: no config, no balance field)
NewBot(max_positions) ==
    [is_running |-> FALSE, positions |-> 0, balance |-> Balance,
     max_positions |-> max_positions, trades |-> 0]

NoccxtBot ==
    [is_running |-> FALSE, positions |-> 0, balance |-> 0,
     max_positions |-> 0, trades |-> 0]

NewTask(b) == [bot |-> b, pc |-> "created", told |-> FALSE]

Response(op, status, checked, total) ==
    [op |-> op, status |-> status, checked |-> checked, total |-> total, request |-> ""]

\* the answer of a start call that read the balance, with what the balance
\* request had come to
BalanceResponse(status, total, outcome) ==
    [Response("start", status, TRUE, total) EXCEPT !.request = outcome.http]

NoResponse == Response("", "", FALSE, 0)

\* a loop pass: the task, whether it had been told to stop, what the fetch gave,
\* what failed in it ("fetch", "compute", "account" or nothing), the signals the
\* aggregator returned, and the trade made
Pass(t, told, fetched, error, positions, max_positions, signals, traded, trade) ==
    [task |-> t, told |-> told, fetched |-> fetched, error |-> error,
     positions |-> positions, max_positions |-> max_positions,
     signals |-> signals, traded |-> traded,
     signal |-> IF traded THEN signals[1] ELSE None,
     ok |-> traded /\ trade.ok,
     size |-> IF traded THEN trade.size ELSE SizeResult("", 0)]

NoPass == Pass(0, FALSE, 0, "", 0, 0, <<>>, FALSE, [ok |-> FALSE, size |-> SizeResult("", 0)])

BotInit ==
    /\ svc \in {"ccxt", "noccxt"}
    /\ creds \in (IF svc = "noccxt" THEN BOOLEAN ELSE {TRUE})
    /\ bot_instance = (IF svc = "noccxt" THEN 1 ELSE 0)
    /\ bots = (IF svc = "noccxt" THEN <<NoccxtBot>> ELSE <<>>)
    /\ tasks = <<>>
    /\ calls = 0
    /\ resp = NoResponse
    /\ accepted = 0
    /\ iter = NoPass

Unused ==
    /\ candles = <<>>
    /\ ret = NotCalled
    /\ ind = NoSeries
    /\ order = NoOrder
    /\ sized = NotSized

Init == BotInit /\ Unused

\* the frames exchange.fetch_ohlcv hands the loop: a flat market, a breakout that
\* three strategies flag, two structure breaks, and the breakout with a history
\* of 20 and of 50 candles
LoopFrames ==
    << FrameOf(<<0, 0, 0, 0, 0>>, 0, 0, 2, 51),
       FrameOf(<<-6, -6, -6, -3, 12>>, 9, 19, 8, 51),
       FrameOf(<<25, 1, 1, -7, 8>>, 0, -19, 2, 51),
       FrameOf(<<6, 6, 6, 3, -12>>, 19, -19, 2, 51),
       FrameOf(<<-6, -6, -6, -3, 12>>, 9, 19, 8, 20),
       FrameOf(<<-6, -6, -6, -3, 12>>, 9, 19, 8, 50) >>

LoopSignals == [k \in 1..Len(LoopFrames) |-> analyze_market(LoopFrames[k])]

\* fetch_ohlcv: 0 is the exchange call failing (caught, returns None), k the frame k
FetchOutcomes == 0..Len(LoopFrames)

\* a length test that lets a history of exactly 50 candles through
AnalysedFromFifty(fetched) == fetched # 0 /\ Len(LoopFrames[fetched]) >= 50

\* `df is not None and len(df) > 50`
Analysed(fetched) == fetched # 0 /\ Len(LoopFrames[fetched]) > 50

\* analyze_market was not called in the pass
NotAnalysed == [raised |-> FALSE, signals |-> <<>>]

\* `signals = self.analyze_market(df)` under the length test: what the call gave
Analysis(fetched) == IF Analysed(fetched) THEN LoopSignals[fetched] ELSE NotAnalysed

\* `signals and len(self.positions) < self.config.max_positions`
Trades(signals, positions, max_positions) ==
    signals # <<>> /\ positions < max_positions

\* what fails in a pass: the exchange call inside fetch_ohlcv (caught there, df is
\* None), or analyze_market raising (caught by the except of the loop body)
PassError(fetched, analysis) ==
    IF fetched = 0 THEN "fetch"
    ELSE IF analysis.raised THEN "compute"
    ELSE ""

\* a loop that gives up after a failed pass
EndOnError(error) == IF error = "" THEN "sleep" ELSE "done"

\* where a pass ends: `await asyncio.sleep(60)`, at the end of the try body and in
\* its except branch alike
AfterPass(error) == "sleep"

\* an execute_trade that books the trade: a position more on the bot
BookedTrade(bot, traded) ==
    [bot EXCEPT !.trades = IF traded THEN @ + 1 ELSE @,
                !.positions = IF traded THEN @ + 1 ELSE @]

\* the bot after `await self.execute_trade(best_signal)`: the method sizes and
\* prints, it assigns neither self.positions nor self.balance
AfterTrade(bot, traded) ==
    [bot EXCEPT !.trades = IF traded THEN @ + 1 ELSE @]

\* One pass of the body of `while self.is_running` in run(), lines 472-489, for the
\* task t of bot b, up to `await asyncio.sleep(60)`: nothing in it suspends.
\* The rows of a frame are numpy scalars, so the signal levels are float64.
\* execute_trade logs the trade; it does not touch self.positions or self.balance.
\* trades counts the trades a bot has made, up to one past its max_positions.
Iteration(t, b, fetched, running) ==
    \E analysis \in {Analysis(fetched)} :
        LET bot     == bots[b]
            error   == PassError(fetched, analysis)
            signals == analysis.signals
            traded  == Trades(signals, bot.positions, bot.max_positions)
            trade   == execute_trade(bot.balance, RiskPercent, Leverage, signals[1], "float64")
        IN /\ traded => bot.trades <= bot.max_positions
           /\ iter' = Pass(t, tasks[t].told, fetched, error, bot.positions, bot.max_positions,
                           signals, traded, trade)
           /\ bots' = [bots EXCEPT ![b] = [AfterTrade(@, traded) EXCEPT !.is_running = running]]

(* ---- ccxt: binance_bot_backend.py ---- *)

\* `if bot_instance and bot_instance.is_running`
AlreadyRunning == bot_instance # 0 /\ bots[bot_instance].is_running

\* a start handler that builds the new bot before it looks at the old one
start_bot_replacing(max_positions) ==
    /\ svc = "ccxt"
    /\ Len(tasks) < MaxTasks
    /\ Len(bots) < MaxTasks
    /\ bots' = Append(bots, NewBot(max_positions))
    /\ bot_instance' = Len(bots) + 1
    /\ IF AlreadyRunning
       THEN /\ resp' = Response("start", "Bot is already running", FALSE, 0)
            /\ UNCHANGED <<tasks, accepted>>
       ELSE /\ tasks' = Append(tasks, NewTask(Len(bots) + 1))
            /\ accepted' = accepted + 1
            /\ resp' = Response("start", "Bot started successfully", TRUE, Balance)
    /\ iter' = NoPass
    /\ UNCHANGED <<svc, creds, calls, detectVars, sizeVars>>

\* POST /start-bot: the handler has no await, it runs in one piece
start_bot(max_positions) ==
    /\ svc = "ccxt"
    /\ IF AlreadyRunning
       THEN /\ resp' = Response("start", "Bot is already running", FALSE, 0)
            /\ UNCHANGED <<bot_instance, bots, tasks, accepted>>
       ELSE /\ Len(tasks) < MaxTasks
            /\ bots' = Append(bots, NewBot(max_positions))
            /\ bot_instance' = Len(bots) + 1
            /\ tasks' = Append(tasks, NewTask(Len(bots) + 1))
            /\ accepted' = accepted + 1
            /\ resp' = Response("start", "Bot started successfully", TRUE, Balance)
    /\ iter' = NoPass
    /\ UNCHANGED <<svc, creds, calls, detectVars, sizeVars>>

\* the tasks a stop call on bot b is meant to end
Tell(b) ==
    [t \in 1..Len(tasks) |->
        IF tasks[t].bot = b /\ tasks[t].pc # "done"
        THEN [tasks[t] EXCEPT !.told = TRUE] ELSE tasks[t]]

\* a stop that flips the running flag
stop_toggling(b) == [bots EXCEPT ![b].is_running = ~@]

\* TradingBot.stop
stop(b) == [bots EXCEPT ![b].is_running = FALSE]

\* POST /stop-bot
stop_bot ==
    /\ svc = "ccxt"
    /\ IF bot_instance = 0
       THEN /\ resp' = Response("stop", "Bot is not running", FALSE, 0)
            /\ UNCHANGED <<bots, tasks, accepted>>
       ELSE /\ bots' = stop(bot_instance)
            /\ tasks' = Tell(bot_instance)
            /\ accepted' = 0
            /\ resp' = Response("stop", "Bot stopped successfully", FALSE, 0)
    /\ iter' = NoPass
    /\ UNCHANGED <<svc, creds, bot_instance, calls, detectVars, sizeVars>>

\* TradingBot.run, first scheduling of the task: self.is_running = True, the loop
\* test (true), the first pass, up to the sleep
run(t) ==
    /\ svc = "ccxt"
    /\ t \in 1..Len(tasks)
    /\ tasks[t].pc = "created"
    /\ \E fetched \in FetchOutcomes : Iteration(t, tasks[t].bot, fetched, TRUE)
    /\ tasks' = [tasks EXCEPT ![t].pc = AfterPass(iter'.error)]
    /\ resp' = NoResponse
    /\ UNCHANGED <<svc, creds, bot_instance, calls, accepted, detectVars, sizeVars>>

\* TradingBot.run, the sleep is over: the loop test, then the next pass or the return
wake(t) ==
    /\ svc = "ccxt"
    /\ t \in 1..Len(tasks)
    /\ tasks[t].pc = "sleep"
    /\ IF bots[tasks[t].bot].is_running
       THEN /\ \E fetched \in FetchOutcomes : Iteration(t, tasks[t].bot, fetched, TRUE)
            /\ tasks' = [tasks EXCEPT ![t].pc = AfterPass(iter'.error)]
       ELSE /\ tasks' = [tasks EXCEPT ![t].pc = "done"]
            /\ iter' = NoPass
            /\ UNCHANGED bots
    /\ resp' = NoResponse
    /\ UNCHANGED <<svc, creds, bot_instance, calls, accepted, detectVars, sizeVars>>

(* ---- noccxt: main-no-ccxt.py ---- *)

\* what the balance request can come to
BalanceOutcomes ==
    { [http |-> h, total |-> b] :
        h \in {"200", "no_usdt", "status", "exception"}, b \in {-5, 0, 250} }

\* a fetch_balance that reports the account's total whatever the request came to
fetch_balance_unguarded(outcome) == outcome.total

\* SimpleBinanceClient.fetch_balance: the USDT row of a 200 response, and 0 for a
\* response without one, another status or an exception
fetch_balance(outcome) == IF outcome.http = "200" THEN outcome.total ELSE 0

\* POST /api/start, up to `await client.fetch_balance()`
api_start_begin ==
    /\ svc = "noccxt"
    /\ IF bots[1].is_running
       THEN /\ resp' = Response("start", "running", FALSE, 0)
            /\ UNCHANGED calls
       ELSE IF ~creds
       THEN /\ resp' = Response("start", "error", FALSE, 0)
            /\ UNCHANGED calls
       ELSE /\ calls < MaxCalls
            /\ calls' = calls + 1
            /\ resp' = NoResponse
    /\ iter' = NoPass
    /\ UNCHANGED <<svc, creds, bot_instance, bots, tasks, accepted, detectVars, sizeVars>>

\* a balance check that lets a balance of exactly 0 through
NegativeOnly(account_balance) == account_balance < 0

\* the balance check of start_bot: `account_balance <= 0`
Insufficient(account_balance) == account_balance <= 0

\* POST /api/start, from the balance on: blocked, or create_task(trading_bot.start())
api_start_finish(outcome) ==
    /\ svc = "noccxt"
    /\ calls > 0
    /\ calls' = calls - 1
    /\ LET account_balance == fetch_balance(outcome)
       IN IF Insufficient(account_balance)
          THEN /\ resp' = BalanceResponse("blocked", account_balance, outcome)
               /\ UNCHANGED <<tasks, accepted>>
          ELSE /\ Len(tasks) < MaxTasks
               /\ tasks' = Append(tasks, NewTask(1))
               /\ accepted' = accepted + 1
               /\ resp' = BalanceResponse("started", account_balance, outcome)
    /\ iter' = NoPass
    /\ UNCHANGED <<svc, creds, bot_instance, bots, detectVars, sizeVars>>

\* POST /api/start when opening the client session raises: the except branch
api_start_error ==
    /\ svc = "noccxt"
    /\ calls > 0
    /\ calls' = calls - 1
    /\ resp' = Response("start", "error", FALSE, 0)
    /\ iter' = NoPass
    /\ UNCHANGED <<svc, creds, bot_instance, bots, tasks, accepted, detectVars, sizeVars>>

\* POST /api/stop -> TradingBot.stop
api_stop ==
    /\ svc = "noccxt"
    /\ bots' = stop(1)
    /\ tasks' = Tell(1)
    /\ accepted' = 0
    /\ resp' = Response("stop", "stopped", FALSE, 0)
    /\ iter' = NoPass
    /\ UNCHANGED <<svc, creds, bot_instance, calls, detectVars, sizeVars>>

\* TradingBot.start, first scheduling: self.is_running = True, open the client,
\* up to the await inside the first update_account_data
start(t) ==
    /\ svc = "noccxt"
    /\ t \in 1..Len(tasks)
    /\ tasks[t].pc = "created"
    /\ bots' = [bots EXCEPT ![1].is_running = TRUE]
    /\ tasks' = [tasks EXCEPT ![t].pc = "init"]
    /\ resp' = NoResponse
    /\ iter' = NoPass
    /\ UNCHANGED <<svc, creds, bot_instance, calls, accepted, detectVars, sizeVars>>

\* trading_loop: the loop test, reached from start() or after a sleep; then the
\* await inside update_account_data, or the return
trading_loop(t) ==
    /\ svc = "noccxt"
    /\ t \in 1..Len(tasks)
    /\ tasks[t].pc \in {"init", "sleep"}
    /\ IF bots[1].is_running
       THEN /\ tasks' = [tasks EXCEPT ![t].pc = "update"]
            /\ iter' = Pass(t, tasks[t].told, 0, "", 0, 0, <<>>, FALSE,
                            [ok |-> FALSE, size |-> SizeResult("", 0)])
       ELSE /\ tasks' = [tasks EXCEPT ![t].pc = "done"]
            /\ iter' = NoPass
    /\ resp' = NoResponse
    /\ UNCHANGED <<svc, creds, bot_instance, bots, calls, accepted, detectVars, sizeVars>>

\* where the loop goes when update_account_data is over: it catches what its
\* requests raise and returns, and the loop goes on to its sleep
AfterUpdate(failed) == "sleep"

\* trading_loop: update_account_data returned, with its requests failed or not, on
\* to `await asyncio.sleep(30)`
update_account_data(t) ==
    /\ svc = "noccxt"
    /\ t \in 1..Len(tasks)
    /\ tasks[t].pc = "update"
    /\ \E failed \in BOOLEAN :
          /\ tasks' = [tasks EXCEPT ![t].pc = AfterUpdate(failed)]
          /\ iter' = [NoPass EXCEPT !.task = t,
                                    !.error = IF failed THEN "account" ELSE ""]
    /\ resp' = NoResponse
    /\ UNCHANGED <<svc, creds, bot_instance, bots, calls, accepted, detectVars, sizeVars>>

Next ==
    \/ \E m \in MaxPositionsChoices : start_bot(m)
    \/ stop_bot
    \/ \E t \in 1..MaxTasks : run(t)
    \/ \E t \in 1..MaxTasks : wake(t)
    \/ api_start_begin
    \/ \E o \in BalanceOutcomes : api_start_finish(o)
    \/ api_start_error
    \/ api_stop
    \/ \E t \in 1..MaxTasks : start(t)
    \/ \E t \in 1..MaxTasks : trading_loop(t)
    \/ \E t \in 1..MaxTasks : update_account_data(t)

Spec == Init /\ [][Next]_vars

(* ---- the strategies on their own ---- *)

DetectInit ==
    /\ candles \in Frames
    /\ ret = NotCalled
    /\ ind = NoSeries
    /\ order = NoOrder
    /\ sized = NotSized
    /\ BotInit /\ svc = "ccxt"

DetectNext ==
    \/ DetectEma
    \/ DetectVolumeProfile
    \/ DetectStructureBreak
    \/ DetectLiquiditySweep
    \/ DetectDeltaDivergence
    \/ AnalyzeMarket

SpecDetect == DetectInit /\ [][DetectNext]_vars

(* ---- position sizing on its own ---- *)

\* price levels in thousandths; the 512 makes a quotient that ends in a half
Levels == {90000, 100000, 100512, 109000, 120000}

Orders ==
    { [entry |-> e, stop_loss |-> sl, risk_percent |-> rp, leverage |-> lv, numeric |-> nm] :
        e \in Levels, sl \in Levels, rp \in {1, 2}, lv \in {1, 5, 10},
        nm \in {"float64", "float"} }

SizeInit ==
    /\ order \in Orders
    /\ sized = NotSized
    /\ candles = <<>>
    /\ ret = NotCalled
    /\ ind = NoSeries
    /\ BotInit /\ svc = "ccxt"

\* bot.calculate_position_size(entry, stop_loss)
SizePosition ==
    /\ sized = NotSized
    /\ LET size == calculate_position_size(Balance, order.risk_percent, order.leverage,
                                           order.entry, order.stop_loss, order.numeric)
       IN sized' = [fn |-> "calculate_position_size",
                    ok |-> size.kind # "ZeroDivisionError", size |-> size]
    /\ UNCHANGED <<order, botVars, detectVars>>

\* bot.execute_trade(signal)
ExecuteTrade ==
    /\ sized = NotSized
    /\ LET out == execute_trade(Balance, order.risk_percent, order.leverage, order, order.numeric)
       IN sized' = [fn |-> "execute_trade", ok |-> out.ok, size |-> out.size]
    /\ UNCHANGED <<order, botVars, detectVars>>

SizeNext == SizePosition \/ ExecuteTrade

SpecSize == SizeInit /\ [][SizeNext]_vars

(* ---- the indicators on their own ---- *)

\* the series of a first value and the running sums of steps, in thousandths
RECURSIVE Walk(_, _)
Walk(first, steps) ==
    IF steps = <<>> THEN <<first * SCALE>>
    ELSE <<first * SCALE>> \o Walk(first + Head(steps), Tail(steps))

Steps == {-2, 0, 1, 3}

MaxSteps == 3

LongLens == {15, 16, 20}

\* constant series, every walk of up to MaxSteps steps, and long rising series
SeriesSet ==
    { [i \in 1..n |-> v * SCALE] : v \in {-3, 0, 7, 100}, n \in {1, 2, 5, 30} }
    \cup UNION { { Walk(10, st) : st \in [1..k -> Steps] } : k \in 1..MaxSteps }
    \cup { Walk(50, [i \in 1..(n - 1) |-> 1 + (i % 3)]) : n \in LongLens }

Periods == {1, 2, 3, 9, 14}

IndicatorInit ==
    /\ ind \in { IndicatorCall("", d, p, <<>>) : d \in SeriesSet, p \in Periods }
    /\ candles = <<>>
    /\ ret = NotCalled
    /\ order = NoOrder
    /\ sized = NotSized
    /\ BotInit /\ svc = "ccxt"

\* AdvancedIndicators.calculate_ema(data, period)
CalculateEma ==
    /\ ind.fn = ""
    /\ ind' = [ind EXCEPT !.fn = "calculate_ema", !.out = calculate_ema(ind.data, ind.period)]
    /\ UNCHANGED <<candles, ret, botVars, sizeVars>>

\* AdvancedIndicators.calculate_rsi(data, period)
CalculateRsi ==
    /\ ind.fn = ""
    /\ ind' = [ind EXCEPT !.fn = "calculate_rsi", !.out = calculate_rsi(ind.data, ind.period)]
    /\ UNCHANGED <<candles, ret, botVars, sizeVars>>

IndicatorNext == CalculateEma \/ CalculateRsi

SpecIndicator == IndicatorInit /\ [][IndicatorNext]_vars

(***************************************************************************)
(* Properties                                                              *)
(***************************************************************************)

\* C1: of the start calls made with no stop in between, at most one is accepted:
\* a second start is rejected as already running and one loop task exists.
C1_SecondStartRejected == accepted <= 1

\* two start calls were accepted in a row and two loop tasks exist
C1_TwoTasks == accepted = 2 /\ Len(tasks) = 2

\* C2: once stop has been called on a started bot, its loop makes no further
\* pass: at its next loop test it sees the flag false and returns, also when the
\* stop came before the task's first statement or a start followed the stop.
C2_StoppedLoopExits == ~iter.told

ActiveLoops ==
    { t \in 1..Len(tasks) :
        tasks[t].pc \in {"init", "update", "sleep"} /\ bots[tasks[t].bot].is_running }

\* C4: in every reachable state at most one polling loop is active.
C4_OneActiveLoop == Cardinality(ActiveLoops) <= 1

\* C3: a start call whose balance check finds a balance <= 0 answers "blocked",
\* creates no task and changes no bot; one that finds a balance > 0 is accepted
\* and creates the loop task.
C3_BalanceGate ==
    [][ (resp'.op = "start" /\ resp'.checked) =>
            IF resp'.total <= 0
            THEN resp'.status = "blocked" /\ tasks' = tasks /\ bots' = bots
                 /\ accepted' = accepted
            ELSE resp'.status \in {"started", "Bot started successfully"}
                 /\ Len(tasks') = Len(tasks) + 1
                 /\ tasks'[Len(tasks')].pc = "created" ]_vars

\* a start from Idle was turned down for a balance of exactly 0
C3_BlockedAtZero ==
    /\ resp.op = "start" /\ resp.status = "blocked" /\ resp.total = 0
    /\ tasks = <<>> /\ ~bots[1].is_running

\* C5: a pass trades only when the aggregator returned a signal and the position
\* count is below max_positions, and then trades the head signal; and a bot makes
\* at most max_positions trades (no position is ever closed).
C5_BoundedTrades ==
    /\ iter.traded =>
          /\ iter.signals # <<>>
          /\ iter.positions < iter.max_positions
          /\ iter.signal = iter.signals[1]
          /\ \A i \in 1..Len(iter.signals) :
                iter.signal.confidence >= iter.signals[i].confidence
    /\ \A b \in 1..Len(bots) : bots[b].trades <= bots[b].max_positions

\* the place of a detector in the evaluation order
DetectorOrder(strategy) ==
    CASE strategy = "EMA Crossover with RSI" -> 1
      [] strategy = "Volume Profile + Order Flow" -> 2
      [] strategy = "Market Structure Break" -> 3
      [] strategy = "Liquidity Sweep + FVG" -> 4
      [] strategy = "Delta Divergence" -> 5
      [] OTHER -> 0

\* the signals are the non-null results of the five detectors on this frame, each
\* once, by non-increasing confidence, equal confidences in detector order
OrderedResultsOf(frame, signals) ==
    LET results == << ema_crossover_rsi_strategy(frame),
                      volume_profile_order_flow_strategy(frame),
                      market_structure_break_strategy(frame),
                      liquidity_sweep_fvg_strategy(frame),
                      delta_divergence_strategy(frame) >>
        found   == { i \in 1..5 : results[i].kind = "signal" }
    IN /\ Len(signals) = Cardinality(found)
       /\ \A i \in found : \E j \in 1..Len(signals) : signals[j] = results[i]
       /\ \A j \in 1..Len(signals) : results[DetectorOrder(signals[j].strategy)] = signals[j]
       /\ \A j, k \in 1..Len(signals) :
             j < k => \/ signals[j].confidence > signals[k].confidence
                      \/ /\ signals[j].confidence = signals[k].confidence
                         /\ DetectorOrder(signals[j].strategy) < DetectorOrder(signals[k].strategy)

\* C6: for every candle snapshot analyze_market returns, and what it returns is
\* exactly the non-null detector results by non-increasing confidence, ties in
\* detector order.
C6_SortedSignals ==
    ret.fn = "analyze_market" => ~ret.raised /\ OrderedResultsOf(candles, ret.signals)

\* C6, when analyze_market does return: what it returns is ordered as claimed
C6_SortedWhenReturned ==
    (ret.fn = "analyze_market" /\ ~ret.raised) => OrderedResultsOf(candles, ret.signals)

\* analyze_market was called on the empty snapshot and raised
C6_RaisedOnEmpty == ret.fn = "analyze_market" /\ candles = <<>> /\ ret.raised

\* C7: every signal a detector emits has stop_loss < entry < take_profit when
\* LONG and take_profit < entry < stop_loss when SHORT.
C7_DirectionalOrdering ==
    ret.result.kind = "signal" =>
        IF ret.result.type = "LONG"
        THEN ret.result.stop_loss < ret.result.entry /\ ret.result.entry < ret.result.take_profit
        ELSE ret.result.take_profit < ret.result.entry /\ ret.result.entry < ret.result.stop_loss

\* C8: with entry equal to stop_loss, sizing gives an error and no size value,
\* and execute_trade does not report success.
C8_ZeroDistanceSkipped ==
    (sized.fn # "" /\ order.entry = order.stop_loss) =>
        /\ sized.size.kind = "ZeroDivisionError"
        /\ ~sized.ok

\* C9: for entry # stop_loss the size is balance * risk_percent/100 / |entry - stop_loss|
\* * leverage to the nearest thousandth (sizes and prices are in thousandths, so
\* the exact quotient is Balance * risk_percent * leverage * 10^4 over the distance);
\* entry 100, stop 90, risk 1, leverage 10 on a balance of 10000 gives 100.0; and
\* swapping entry and stop_loss gives the same size.
C9_SizeFormula ==
    (sized.fn = "calculate_position_size" /\ order.entry # order.stop_loss) =>
        LET D == Abs(order.entry - order.stop_loss)
            N == Balance * order.risk_percent * order.leverage * 10^4
        IN /\ sized.size.kind = "size"
           /\ 2 * Abs(sized.size.size * D - N) <= D
           /\ (order.entry = 100000 /\ order.stop_loss = 90000
               /\ order.risk_percent = 1 /\ order.leverage = 10) => sized.size.size = 100000
           /\ calculate_position_size(Balance, order.risk_percent, order.leverage,
                                      order.stop_loss, order.entry, order.numeric) = sized.size

\* the worked example was sized
C9_Example ==
    /\ sized.fn = "calculate_position_size"
    /\ order.entry = 100000 /\ order.stop_loss = 90000
    /\ order.risk_percent = 1 /\ order.leverage = 10
    /\ sized.size = SizeResult("size", 100000)

\* C10: on a frame of at most three candles (shorter than every window the
\* detectors use, the empty frame and the single candle included) a detector
\* returns None and does not raise.
C10_ShortFrameNoSignal ==
    (ret.fn \notin {"", "analyze_market"} /\ Len(candles) <= 3) =>
        ~ret.raised /\ ret.result = None

\* the confidence the claim gives each detector
ClaimedConfidence(strategy) ==
    CASE strategy = "EMA Crossover with RSI" -> 75
      [] strategy = "Volume Profile + Order Flow" -> 80
      [] strategy = "Market Structure Break" -> 72
      [] strategy = "Liquidity Sweep + FVG" -> 82
      [] strategy = "Delta Divergence" -> 78
      [] OTHER -> 0

\* the strategy name of a detector method
StrategyOf(fn) ==
    CASE fn = "ema_crossover_rsi_strategy" -> "EMA Crossover with RSI"
      [] fn = "volume_profile_order_flow_strategy" -> "Volume Profile + Order Flow"
      [] fn = "market_structure_break_strategy" -> "Market Structure Break"
      [] fn = "liquidity_sweep_fvg_strategy" -> "Liquidity Sweep + FVG"
      [] fn = "delta_divergence_strategy" -> "Delta Divergence"
      [] OTHER -> ""

\* C12: a signal, LONG or SHORT, carries the confidence of the detector that made
\* it (75, 80, 72, 82, 78), as a detector's own result and in the aggregator's
\* output, where every confidence is one of the five.
C12_FixedConfidence ==
    /\ ret.result.kind = "signal" =>
          /\ ret.result.strategy = StrategyOf(ret.fn)
          /\ ret.result.type \in {"LONG", "SHORT"}
          /\ ret.result.confidence = ClaimedConfidence(ret.result.strategy)
    /\ \A i \in 1..Len(ret.signals) :
          /\ ret.signals[i].confidence \in {72, 75, 78, 80, 82}
          /\ ret.signals[i].confidence = ClaimedConfidence(ret.signals[i].strategy)
          /\ ret.signals[i].type \in {"LONG", "SHORT"}

\* the aggregator returned the signals of three detectors, 80 before 75 before 72
C12_ThreeSignals ==
    /\ ret.fn = "analyze_market" /\ Len(ret.signals) = 3
    /\ ret.signals[1].confidence = 80 /\ ret.signals[1].strategy = "Volume Profile + Order Flow"
    /\ ret.signals[2].confidence = 75 /\ ret.signals[2].strategy = "EMA Crossover with RSI"
    /\ ret.signals[3].confidence = 72 /\ ret.signals[3].strategy = "Market Structure Break"

\* the indicators a detector's entry conditions read at the latest candle that
\* can be undefined: RSI14 and the 20-period means (the EMAs, MACD, VWAP over a
\* positive volume, Delta and OBV are defined at every row)
UndefinedIndicator(fn, df) ==
    LET n         == Len(df)
        rsi       == calculate_rsi(Col(df, "close"), 14)[n]
        volume_ma == Rolling(Col(df, "volume"), 20)[n]
        obv_ma    == Rolling(calculate_obv(df), 20)[n]
    IN /\ n >= 1
       /\ CASE fn = "ema_crossover_rsi_strategy" -> rsi = NaN \/ volume_ma = NaN
            [] fn = "volume_profile_order_flow_strategy" -> volume_ma = NaN
            [] fn = "market_structure_break_strategy" -> rsi = NaN
            [] fn = "liquidity_sweep_fvg_strategy" -> volume_ma = NaN
            [] fn = "delta_divergence_strategy" -> rsi = NaN \/ obv_ma = NaN
            [] OTHER -> FALSE

\* C13: when an indicator that a detector's entry conditions read is undefined at
\* the latest candle, the conditions that read it are false; each of them stands
\* in both the LONG and the SHORT conjunction, so the detector emits no signal.
C13_UndefinedMeansNoSignal ==
    UndefinedIndicator(ret.fn, candles) => ret.result.kind # "signal"

\* the EMA detector was called on 19 candles where the crossover, the RSI band and
\* the close above EMA50 all hold and only the 20-period volume mean is undefined
C13_OnlyVolumeMeanUndefined ==
    LET n      == Len(candles)
        close  == Col(candles, "close")
        ema_9  == calculate_ema(close, 9)
        ema_21 == calculate_ema(close, 21)
        rsi    == calculate_rsi(close, 14)[n]
    IN /\ ret.fn = "ema_crossover_rsi_strategy" /\ n = 19
       /\ ema_9[n - 1] <= ema_21[n - 1] /\ ema_9[n] > ema_21[n]
       /\ rsi # NaN /\ rsi > 50 * SCALE /\ rsi < 70 * SCALE
       /\ close[n] > calculate_ema(close, 50)[n]
       /\ Rolling(Col(candles, "volume"), 20)[n] = NaN
       /\ ret.result = None

IsConstant(x) == \A i \in 1..Len(x) : x[i] = x[1]

StrictlyIncreasing(x) == \A i \in 2..Len(x) : x[i - 1] < x[i]

\* C14: the EMA of a constant series, for any period >= 1, is that series.
C14_EmaFixedPoint ==
    (ind.fn = "calculate_ema" /\ IsConstant(ind.data)) => ind.out = ind.data

\* the EMA with period 9 of thirty values 7 was computed and is thirty values 7
C14_ConstantSeven ==
    /\ ind.fn = "calculate_ema" /\ ind.period = 9
    /\ ind.data = [i \in 1..30 |-> 7 * SCALE]
    /\ ind.out = [i \in 1..30 |-> 7 * SCALE]

\* C15: on a strictly increasing series the RSI is undefined at a row that has
\* fewer than `period` differences behind it (row i has i - 1) and is 100 at
\* every row with `period` or more.
C15_RsiOfRisingSeries ==
    (ind.fn = "calculate_rsi" /\ StrictlyIncreasing(ind.data)) =>
        /\ Len(ind.out) = Len(ind.data)
        /\ \A i \in 1..Len(ind.data) :
              ind.out[i] = IF i - 1 < ind.period THEN NaN ELSE 100 * SCALE

\* on a rising series RSI14 is 100 at row 14, which has 13 differences behind it
C15_DefinedOneRowEarly ==
    /\ ind.fn = "calculate_rsi" /\ ind.period = 14 /\ StrictlyIncreasing(ind.data)
    /\ Len(ind.data) >= 15
    /\ ind.out[13] = NaN /\ ind.out[14] = 100 * SCALE /\ ind.out[15] = 100 * SCALE

\* what the Delta Divergence claim asks of a frame: of the two lowest-low
\* (highest-high) candles among the last 20, the later one has the lower low
\* (higher high) and the higher (lower) Delta, with the OBV and RSI conditions
Divergence(df, isMax) ==
    LET n      == Len(df)
        two    == Extreme2(df, IF n > 20 THEN n - 19 ELSE 1, IF isMax THEN "high" ELSE "low", isMax)
        later  == Max2(two[1], two[2])
        before == Min2(two[1], two[2])
        delta  == calculate_delta(df)
        obv    == calculate_obv(df)
        obv_ma == Rolling(obv, 20)
        rsi    == calculate_rsi(Col(df, "close"), 14)
    IN /\ n >= 20 /\ Len(two) = 2
       /\ IF isMax
          THEN /\ df[later].high > df[before].high /\ delta[later] < delta[before]
               /\ Lt(obv[n], obv_ma[n]) /\ Gt(rsi[n], 60 * SCALE)
          ELSE /\ df[later].low < df[before].low /\ delta[later] > delta[before]
               /\ Gt(obv[n], obv_ma[n]) /\ Lt(rsi[n], 40 * SCALE)

\* C16: the Delta Divergence detector returns LONG with confidence 78 whenever the
\* later of the two lowest-low candles of the last 20 has the lower low and the
\* higher Delta, OBV is above its 20-period mean and RSI14 is below 40; and SHORT
\* in the mirrored case of the two highest-high candles.
C16_DivergenceSignals ==
    ret.fn = "delta_divergence_strategy" =>
        /\ Divergence(candles, FALSE) =>
              /\ ret.result.kind = "signal" /\ ret.result.type = "LONG"
              /\ ret.result.confidence = 78
        /\ (Divergence(candles, TRUE) /\ ~Divergence(candles, FALSE)) =>
              /\ ret.result.kind = "signal" /\ ret.result.type = "SHORT"
              /\ ret.result.confidence = 78

\* the detector was called on a frame with a bullish divergence and returned None
C16_DivergenceMissed ==
    /\ ret.fn = "delta_divergence_strategy" /\ Divergence(candles, FALSE)
    /\ ret.result = None

\* what the Liquidity Sweep claim asks of the last three candles for a LONG
SweepUp(df) ==
    LET n       == Len(df)
        min_low == Min2(df[n - 2].low, Min2(df[n - 1].low, df[n].low))
    IN /\ n >= 20
       /\ min_low < df[n - 2].low
       /\ df[n].close > df[n - 1].high
       /\ df[n].low > df[n - 2].high
       /\ VolumeAbove(df, 15)

\* C17: the Liquidity Sweep + FVG detector returns LONG with confidence 82, stop =
\* swept low - ATR14 and target = entry + 2 * (entry - swept low) whenever, over
\* the last three candles, the minimum low is under the first low, the close is
\* above the middle high, the third low is above the first high, and the volume
\* is more than 1.5 times its 20-period mean.
C17_SweepSignals ==
    (ret.fn = "liquidity_sweep_fvg_strategy" /\ SweepUp(candles)) =>
        LET n       == Len(candles)
            min_low == Min2(candles[n - 2].low, Min2(candles[n - 1].low, candles[n].low)) * SCALE
            entry   == candles[n].close * SCALE
        IN /\ ret.result.kind = "signal" /\ ret.result.type = "LONG"
           /\ ret.result.confidence = 82
           /\ ret.result.entry = entry
           /\ ret.result.stop_loss = Sub(min_low, calculate_atr(candles, 14)[n])
           /\ ret.result.take_profit = entry + 2 * (entry - min_low)

\* the detector was called on a frame with a sweep and an up gap and returned None
C17_SweepMissed ==
    /\ ret.fn = "liquidity_sweep_fvg_strategy" /\ SweepUp(candles)
    /\ ret.result = None

\* C18: a pass gets signals from the aggregator, and can trade, only when the
\* fetch gave a frame of more than 50 candles; after a failed fetch or with a
\* shorter history it makes no trade and the task is at its sleep.
C18_MinimumHistory ==
    (svc = "ccxt" /\ iter.task # 0) =>
        LET enough == iter.fetched # 0 /\ Len(LoopFrames[iter.fetched]) > 50
        IN /\ (iter.signals # <<>> \/ iter.traded) => enough
           /\ ~enough =>
                 /\ iter.signals = <<>> /\ ~iter.traded /\ ~iter.ok
                 /\ tasks[iter.task].pc = "sleep"

\* a pass fetched the 50-candle breakout history, made no trade and went to sleep
C18_FiftyCandles ==
    /\ svc = "ccxt" /\ iter.task # 0 /\ iter.fetched # 0
    /\ Len(LoopFrames[iter.fetched]) = 50
    /\ analyze_market(LoopFrames[iter.fetched]).signals # <<>>
    /\ ~iter.traded /\ tasks[iter.task].pc = "sleep"

\* C19: a start call that is rejected, as already running or for a balance <= 0,
\* changes nothing: the bots with their flag, config, balance and positions, the
\* current bot instance and the loop tasks are after the call what they were
\* (for the handler that waits for the balance: after each of its two steps).
C19_RejectedStartNoChange ==
    [][ (\/ /\ resp'.op = "start"
            /\ resp'.status \in {"Bot is already running", "running", "blocked"}
         \/ calls' > calls) =>
            /\ bots' = bots
            /\ bot_instance' = bot_instance
            /\ tasks' = tasks
            /\ accepted' = accepted ]_vars

\* a start call was rejected while the one bot was running its one loop
C19_RejectedWhileRunning ==
    /\ resp.op = "start" /\ resp.status = "Bot is already running"
    /\ Len(bots) = 1 /\ bots[bot_instance].is_running
    /\ Len(tasks) = 1 /\ tasks[1].pc = "sleep"

\* other orders in which the five methods could be run
OtherOrders ==
    { <<StrategyMethods[5], StrategyMethods[4], StrategyMethods[3],
        StrategyMethods[2], StrategyMethods[1]>>,
      <<StrategyMethods[3], StrategyMethods[1], StrategyMethods[5],
        StrategyMethods[2], StrategyMethods[4]>> }

SignalSet(results) ==
    { results[i] : i \in { j \in 1..Len(results) : results[j].kind = "signal" } }

get_status ==
    IF bot_instance = 0
    THEN [is_running |-> FALSE, balance |-> 0, positions |-> 0]
    ELSE [is_running |-> bots[bot_instance].is_running,
          balance    |-> bots[bot_instance].balance,
          positions  |-> bots[bot_instance].positions]

\* the task's first scheduling, where run() sets the running flag a start asked for
TaskStarted == \E t \in 1..Len(tasks) : tasks[t].pc = "created" /\ tasks'[t].pc # "created"

C22_StopRejectedOrIdempotent ==
    [][ (svc = "ccxt" /\ resp'.op = "stop") =>
          IF bot_instance = 0
          THEN /\ resp'.status = "Bot is not running"
               /\ bots' = bots /\ tasks' = tasks /\ bot_instance' = bot_instance
          ELSE /\ resp'.status = "Bot stopped successfully"
               /\ bot_instance' = bot_instance
               /\ ~bots'[bot_instance].is_running
               /\ bots' = [bots EXCEPT ![bot_instance].is_running = FALSE]
               /\ ~bots[bot_instance].is_running => bots' = bots ]_vars

\* a stop call succeeded on an instance that was stopped already: its loop had
\* seen the flag and returned before the call
C22_StoppedAgain ==
    /\ svc = "ccxt" /\ bot_instance # 0
    /\ resp.op = "stop" /\ resp.status = "Bot stopped successfully"
    /\ ~bots[bot_instance].is_running
    /\ \A t \in 1..Len(tasks) : tasks[t].bot = bot_instance => tasks[t].pc = "done"
    /\ \E t \in 1..Len(tasks) : tasks[t].bot = bot_instance

\* a stop call was rejected before any instance existed
C22_RejectedWithoutInstance ==
    /\ svc = "ccxt" /\ bot_instance = 0
    /\ resp.op = "stop" /\ resp.status = "Bot is not running"

\* the balance request failed: a response other than 200, or an exception
RequestFailed(r) == r.request \in {"status", "exception"}

\* C23: in the no-ccxt service a start call whose balance request failed reads a
\* total of 0, answers "blocked", creates no task and leaves the bot as it was.
C23_FailedBalanceBlocks ==
    [][ (svc = "noccxt" /\ resp'.op = "start" /\ RequestFailed(resp')) =>
          /\ resp'.total = 0
          /\ resp'.status = "blocked"
          /\ tasks' = tasks
          /\ bots' = bots
          /\ accepted' = accepted ]_vars

\* a start call was blocked after its balance request raised; there is no task
\* and the bot is not running
C23_BlockedAfterException ==
    /\ svc = "noccxt"
    /\ resp.op = "start" /\ resp.request = "exception"
    /\ resp.status = "blocked" /\ resp.total = 0
    /\ tasks = <<>> /\ ~bots[1].is_running

====
